---- MODULE Spec2Model ----
(***************************************************************************)
(* MAXCUT-QAOA demo (QAOA_Demo_Code.ipynb): graph model, cost and mixer    *)
(* layer builders, circuit assembler, bit-order normalizer, classical      *)
(* objective evaluator and the variational driver around an external       *)
(* execution backend and an external minimizer.                            *)
(*                                                                         *)
(* Python values are represented as follows.                               *)
(*   str (bitstring)   sequence of "0"/"1"; Python x[i] is x[i+1] here     *)
(*   dict              sequence of <<key, value>> pairs with distinct      *)
(*                     keys, in insertion (= iteration) order              *)
(*   list / ndarray    sequence                                            *)
(*   angle (float)     an integer standing for the real number             *)
(*   energy (float)    the pair num/den of the final division              *)
(*   QuantumCircuit    its instruction list; an instruction is a record    *)
(*                     [op, qubits, params]                                *)
(***************************************************************************)
EXTENDS Integers, Sequences, FiniteSets, TLC

\* G, p, theta, qc, counts (raw), ncounts (inverted), energy, best: the
\* notebook's values; call: the function call under way when the functions are
\* called on their own; state, pc: where the driver is; nfev, status: the
\* minimizer's; runs: backend runs of the final re-run; memo: a history
\* variable, one earlier evaluation of f as it was seen
VARIABLES G, call, p, state, pc, theta, nfev, status, qc, counts, ncounts,
          energy, runs, best, memo

vars == <<G, call, p, state, pc, theta, nfev, status, qc, counts, ncounts,
          energy, runs, best, memo>>

\* ------------------------------------------------------------------ bounds

\* largest number of keys of a dict handed to a function
MaxKeys == 2
\* largest occurrence count of one key handed to a function
MaxCount == 2
\* largest circuit depth
MaxP == 2
\* maxiter of the minimizer (2500 in the notebook)
MaxIter == 3
\* shots of one backend execution (the backend's default in the notebook)
Shots == 3

\* the depths p the driver is run with (5 in the notebook)
Depths == {1, 2}
\* the values angles are drawn from
Angles == {1, 2}

\* ------------------------------------------------------------------ helpers

Min2(a, b) == IF a <= b THEN a ELSE b

Range(s) == {s[i] : i \in 1..Len(s)}

\* sequences over S of length 0..n
SeqsUpTo(S, n) == UNION {[1..k -> S] : k \in 0..n}

\* sequences without a repeated element
Injective(s) == \A i, j \in 1..Len(s) : i # j => s[i] # s[j]

\* Reverse with the string rotated by one instead of reversed
Reverse_rotate(s) == [i \in 1..Len(s) |-> s[(i % Len(s)) + 1]]

\* Python s[::-1]
Reverse(s) == [i \in 1..Len(s) |-> s[Len(s) + 1 - i]]

\* s[:len(s)//2] for s[:n]
SliceTo_half(s, n) == SubSeq(s, 1, Len(s) \div 2)

\* Python s[:n] and s[n:] for n >= 0
SliceTo(s, n) == SubSeq(s, 1, Min2(n, Len(s)))
\* s[n:] starting one item early
SliceFrom_overlap(s, n) == SubSeq(s, n, Len(s))

SliceFrom(s, n) == SubSeq(s, n + 1, Len(s))

\* the sum of f[x] over the finite set S
RECURSIVE SumOver(_, _)
SumOver(S, f) ==
  IF S = {} THEN 0
  ELSE LET x == CHOOSE x \in S : TRUE IN f[x] + SumOver(S \ {x}, f)

\* ------------------------------------------------------------------ dict

Keys(d) == [i \in 1..Len(d) |-> d[i][1]]
KeySet(d) == {d[i][1] : i \in 1..Len(d)}
Get(d, k) == LET i == CHOOSE i \in 1..Len(d) : d[i][1] = k IN d[i][2]

\* d[k] = v : an existing key keeps its place, a new key goes last
DictSet(d, k, v) ==
  IF k \in KeySet(d)
  THEN [i \in 1..Len(d) |-> IF d[i][1] = k THEN <<k, v>> ELSE d[i]]
  ELSE Append(d, <<k, v>>)

\* ------------------------------------------------------------------ graph

\* node order of nx.Graph after add_edges_from(el): first appearance
RECURSIVE NodeOrder(_, _)
NodeOrder(el, acc) ==
  IF el = <<>> THEN acc
  ELSE LET u == Head(el)[1]
           v == Head(el)[2]
           a1 == IF u \in Range(acc) THEN acc ELSE Append(acc, u)
           a2 == IF v \in Range(a1) THEN a1 ELSE Append(a1, v)
       IN NodeOrder(Tail(el), a2)

\* adjacency of n after add_edges_from(el), in insertion order
RECURSIVE Adj(_, _)
Adj(el, n) ==
  IF el = <<>> THEN <<>>
  ELSE LET u == Head(el)[1]
           v == Head(el)[2]
           rest == Adj(Tail(el), n)
       IN IF u = n THEN <<v>> \o rest
          ELSE IF v = n THEN <<u>> \o rest
          ELSE rest

\* G = nx.Graph(); G.add_edges_from(el)
Graph(el) ==
  LET ns == NodeOrder(el, <<>>)
  IN [nodes |-> ns, adj |-> [n \in Range(ns) |-> Adj(el, n)]]

number_of_nodes(g) == Len(g.nodes)

\* G.nodes(): insertion order
Nodes(g) == g.nodes

\* UnseenNbrs keeping the neighbours already visited as a node
RECURSIVE UnseenNbrs_all(_, _, _, _)
UnseenNbrs_all(n, nb, seen, i) ==
  IF i > Len(nb) THEN <<>>
  ELSE <<<<n, nb[i]>>>> \o UnseenNbrs_all(n, nb, seen, i + 1)

\* G.edges(): for every node in order, its neighbours not yet visited as a node
RECURSIVE UnseenNbrs(_, _, _, _)
UnseenNbrs(n, nb, seen, i) ==
  IF i > Len(nb) THEN <<>>
  ELSE (IF nb[i] \in seen THEN <<>> ELSE <<<<n, nb[i]>>>>)
       \o UnseenNbrs(n, nb, seen, i + 1)

RECURSIVE EdgesFrom(_, _)
EdgesFrom(g, k) ==
  IF k > Len(g.nodes) THEN <<>>
  ELSE LET n == g.nodes[k]
           seen == {g.nodes[i] : i \in 1..(k - 1)}
       IN UnseenNbrs(n, g.adj[n], seen, 1) \o EdgesFrom(g, k + 1)

EdgesOf(g) == EdgesFrom(g, 1)

\* the edge lists drawn, nodes 0..N-1 with every node on some edge: an edge,
\* a path, a star whose nodes are met in the order 0, 2, 1, and a triangle
EdgeLists ==
  { << <<0, 1>> >>,
    << <<0, 1>>, <<1, 2>> >>,
    << <<0, 2>>, <<1, 2>> >>,
    << <<0, 1>>, <<0, 2>>, <<1, 2>> >> }

Graphs == {Graph(el) : el \in EdgeLists}

\* the graph of cell 10, the complete bipartite graph of {0, 1, 2} and {3, 4}:
\* G.add_edges_from([[0,3],[0,4],[1,3],[1,4],[2,3],[2,4]])
K32 ==
  Graph(<< <<0, 3>>, <<0, 4>>, <<1, 3>>, <<1, 4>>, <<2, 3>>, <<2, 4>> >>)

\* every graph G can be
AllGraphs == Graphs \cup {K32}

\* G.edges() of every graph drawn, computed once
EdgesTable == [g \in AllGraphs |-> EdgesOf(g)]
Edges(g) == EdgesTable[g]

\* bitstrings of length N
Bitstrings(N) == [1..N -> {"0", "1"}]

\* dicts bitstring -> count with at most MaxKeys keys, counts 0..MaxCount
Dists(N) ==
  {d \in SeqsUpTo(Bitstrings(N) \X (0..MaxCount), MaxKeys) : Injective(Keys(d))}

\* what backend.run(qc).result().get_counts() can be for a circuit measuring N
\* lines: the outcomes seen (at most MaxKeys of them), each a positive number
\* of times, Shots in all
Outcomes(N) ==
  {d \in SeqsUpTo(Bitstrings(N) \X (1..Shots), Min2(MaxKeys, Shots)) :
     /\ Injective(Keys(d))
     /\ SumOver(1..Len(d), [i \in 1..Len(d) |-> d[i][2]]) = Shots}

\* the node counts of the graphs drawn, and the outcome sets and the dicts of
\* each node count
NodeCounts == {number_of_nodes(g) : g \in Graphs}
OutcomesOf == [N \in NodeCounts |-> Outcomes(N)]
DistsOf == [N \in NodeCounts |-> Dists(N)]

\* the keys of the dicts handed to the functions when G is the graph of cell
\* 10: the bitstring of cell 29 ('00011'), its complement, and two bitstrings
\* that cut fewer edges
K32Keys ==
  { <<"0", "0", "0", "1", "1">>, <<"1", "1", "1", "0", "0">>,
    <<"0", "0", "0", "0", "0">>, <<"1", "0", "1", "0", "0">> }
K32Dists ==
  {d \in SeqsUpTo(K32Keys \X (0..MaxCount), MaxKeys) : Injective(Keys(d))}

\* the dicts handed to compute_maxcut_energy and invert_counts for graph g
DistsFor(g) == IF g = K32 THEN K32Dists ELSE DistsOf[number_of_nodes(g)]

\* the dicts cell 41 can find in counts for graph g: the dicts above and what
\* a run of the backend gives
FinalDistsFor(g) ==
  DistsFor(g) \cup (IF g = K32 THEN {} ELSE OutcomesOf[number_of_nodes(g)])

\* the parameter vectors of length n
Thetas(n) == [1..n -> Angles]

\* ------------------------------------------------------------------ objective

\* maxcut_loop counting the edges whose endpoints agree
RECURSIVE maxcut_loop_uncut(_, _, _, _)
maxcut_loop_uncut(x, es, k, cut) ==
  IF k > Len(es) THEN cut
  ELSE LET i == es[k][1]
           j == es[k][2]
       IN maxcut_loop_uncut(x, es, k + 1,
                            IF x[i + 1] = x[j + 1] THEN cut - 1 ELSE cut)

\* def maxcut_obj(x,G): the loop over G.edges(), from edge k, with cut so far
RECURSIVE maxcut_loop(_, _, _, _)
maxcut_loop(x, es, k, cut) ==
  IF k > Len(es) THEN cut
  ELSE LET i == es[k][1]
           j == es[k][2]
       IN maxcut_loop(x, es, k + 1, IF x[i + 1] # x[j + 1] THEN cut - 1 ELSE cut)

maxcut_run(x, g) == maxcut_loop(x, Edges(g), 1, 0)

\* maxcut_obj of every graph and bitstring drawn, computed once
CutTable ==
  [g \in AllGraphs |-> [x \in Bitstrings(number_of_nodes(g)) |-> maxcut_run(x, g)]]
maxcut_obj(x, g) == CutTable[g][x]

\* energy_loop counting every key once in total_counts
RECURSIVE energy_loop_unweighted(_, _, _, _, _)
energy_loop_unweighted(cs, g, k, en, total_counts) ==
  IF k > Len(cs) THEN [energy |-> en, total_counts |-> total_counts]
  ELSE energy_loop_unweighted(cs, g, k + 1,
                              en + maxcut_obj(cs[k][1], g) * cs[k][2],
                              total_counts + (IF cs[k][2] > 0 THEN 1 ELSE 0))

\* energy_loop with energy = instead of energy +=
RECURSIVE energy_loop_assign(_, _, _, _, _)
energy_loop_assign(cs, g, k, en, total_counts) ==
  IF k > Len(cs) THEN [energy |-> en, total_counts |-> total_counts]
  ELSE energy_loop_assign(cs, g, k + 1,
                          maxcut_obj(cs[k][1], g) * cs[k][2],
                          total_counts + cs[k][2])

\* def compute_maxcut_energy(counts, G): the loop over counts.items()
RECURSIVE energy_loop(_, _, _, _, _)
energy_loop(cs, g, k, en, total_counts) ==
  IF k > Len(cs) THEN [energy |-> en, total_counts |-> total_counts]
  ELSE LET meas == cs[k][1]
           meas_count == cs[k][2]
           obj_for_meas == maxcut_obj(meas, g)
       IN energy_loop(cs, g, k + 1, en + obj_for_meas * meas_count,
                      total_counts + meas_count)

\* compute_maxcut_energy returning 0 for a dict of total count zero
compute_maxcut_energy_guarded(cs, g) ==
  LET acc == energy_loop(cs, g, 1, 0, 0)
  IN IF acc.total_counts = 0
     THEN [err |-> "none", num |-> 0, den |-> 1]
     ELSE [err |-> "none", num |-> acc.energy, den |-> acc.total_counts]

\* energy / total_counts: ZeroDivisionError when total_counts = 0
compute_maxcut_energy(cs, g) ==
  LET acc == energy_loop(cs, g, 1, 0, 0)
  IN IF acc.total_counts = 0
     THEN [err |-> "ZeroDivisionError", num |-> 0, den |-> 0]
     ELSE [err |-> "none", num |-> acc.energy, den |-> acc.total_counts]

\* ------------------------------------------------------------------ normalizer

\* invert_loop with {k:v ...}: the key is not reversed
RECURSIVE invert_loop_samekey(_, _, _)
invert_loop_samekey(cs, k, out) ==
  IF k > Len(cs) THEN [counts |-> cs, out |-> out]
  ELSE invert_loop_samekey(cs, k + 1, DictSet(out, cs[k][1], cs[k][2]))

\* def invert_counts(counts): {k[::-1]:v for k, v in counts.items()}
\* the comprehension fills a new dict out and only reads counts; the loop
\* yields both as they are when it ends
RECURSIVE invert_loop(_, _, _)
invert_loop(cs, k, out) ==
  IF k > Len(cs) THEN [counts |-> cs, out |-> out]
  ELSE invert_loop(cs, k + 1, DictSet(out, Reverse(cs[k][1]), cs[k][2]))

\* invert_counts applied twice
invert_counts_twice(cs) == invert_loop(invert_loop(cs, 1, <<>>).out, 1, <<>>).out

invert_counts(cs) == invert_loop(cs, 1, <<>>).out

\* ------------------------------------------------------------------ circuit

\* one instruction of a QuantumCircuit
Instr(op, qubits, params) == [op |-> op, qubits |-> qubits, params |-> params]

\* range(N) as a list
RangeN(N) == [i \in 1..N |-> i - 1]

\* qc.h(range(N)), qc.measure(range(N), range(N)): one instruction per line
OnEach(op, N) == [i \in 1..N |-> Instr(op, <<i - 1>>, <<>>)]

\* qc.barrier() and qc.barrier(range(N)): one instruction over all N lines
Barrier(N) == Instr("barrier", RangeN(N), <<>>)

\* append_zz_term with the rotation on q1
append_zz_term_q1(c, q1, q2, gamma) ==
  c \o << Instr("cx", <<q1, q2>>, <<>>),
          Instr("rz", <<q1>>, <<2 * gamma>>),
          Instr("cx", <<q1, q2>>, <<>>) >>

\* def append_zz_term(qc, q1, q2, gamma)
append_zz_term(c, q1, q2, gamma) ==
  c \o << Instr("cx", <<q1, q2>>, <<>>),
          Instr("rz", <<q2>>, <<2 * gamma>>),
          Instr("cx", <<q1, q2>>, <<>>) >>

\* def get_cost_operator_circuit(G, gamma): the loop over G.edges()
RECURSIVE cost_loop(_, _, _, _, _)
cost_loop(c, es, k, gamma, N) ==
  IF k > Len(es) THEN c
  ELSE cost_loop(Append(append_zz_term(c, es[k][1], es[k][2], gamma), Barrier(N)),
                 es, k + 1, gamma, N)

get_cost_operator_circuit(g, gamma) ==
  cost_loop(<<>>, Edges(g), 1, gamma, number_of_nodes(g))

\* append_x_term adding nothing for one value of the angle
append_x_term_dropped(c, q1, beta) ==
  IF beta = 1 THEN c ELSE Append(c, Instr("rx", <<q1>>, <<2 * beta>>))

\* def append_x_term(qc, q1, beta)
append_x_term(c, q1, beta) == Append(c, Instr("rx", <<q1>>, <<2 * beta>>))

\* mixer_loop with a rotation on the node met first only
RECURSIVE mixer_loop_first(_, _, _, _)
mixer_loop_first(c, ns, k, beta) ==
  IF k > Len(ns) THEN c
  ELSE mixer_loop_first(append_x_term(c, ns[1], beta), ns, k + 1, beta)

\* def get_mixer_operator_circuit(G, beta): the loop over G.nodes()
RECURSIVE mixer_loop(_, _, _, _)
mixer_loop(c, ns, k, beta) ==
  IF k > Len(ns) THEN c
  ELSE mixer_loop(append_x_term(c, ns[k], beta), ns, k + 1, beta)

get_mixer_operator_circuit(g, beta) == mixer_loop(<<>>, Nodes(g), 1, beta)

\* qaoa_loop with the mixer layer composed before the cost layer
RECURSIVE qaoa_loop_mixerfirst(_, _, _, _, _)
qaoa_loop_mixerfirst(c, g, beta, gamma, i) ==
  IF i >= Len(beta) THEN c
  ELSE qaoa_loop_mixerfirst(c \o get_mixer_operator_circuit(g, beta[i + 1])
                              \o get_cost_operator_circuit(g, gamma[i + 1]),
                            g, beta, gamma, i + 1)

\* def get_qaoa_circuit(G, beta, gamma): the loop for i in range(p)
RECURSIVE qaoa_loop(_, _, _, _, _)
qaoa_loop(c, g, beta, gamma, i) ==
  IF i >= Len(beta) THEN c
  ELSE qaoa_loop(c \o get_cost_operator_circuit(g, gamma[i + 1])
                   \o get_mixer_operator_circuit(g, beta[i + 1]),
                 g, beta, gamma, i + 1)

\* the assert with <= for ==
LengthsAgree_le(beta, gamma) == Len(beta) <= Len(gamma)

\* assert(len(beta) == len(gamma))
LengthsAgree(beta, gamma) == Len(beta) = Len(gamma)

\* the call returns a circuit (returned = TRUE) or raises (err)
get_qaoa_circuit(g, beta, gamma) ==
  IF ~LengthsAgree(beta, gamma)
  THEN [err |-> "AssertionError", returned |-> FALSE, qc |-> <<>>]
  ELSE LET N == number_of_nodes(g)
       IN [err |-> "none", returned |-> TRUE,
           qc |-> qaoa_loop(OnEach("h", N), g, beta, gamma, 0)
                    \o <<Barrier(N)>> \o OnEach("measure", N)]

\* ------------------------------------------------------------------ selection

\* min_loop keeping the item with the largest key
RECURSIVE min_loop_max(_, _, _)
min_loop_max(items, k, cur) ==
  IF k > Len(items) THEN cur
  ELSE min_loop_max(items, k + 1, IF items[k][1] > cur[1] THEN items[k] ELSE cur)

\* min_loop with <= for <: the last item with the smallest key
RECURSIVE min_loop_last(_, _, _)
min_loop_last(items, k, cur) ==
  IF k > Len(items) THEN cur
  ELSE min_loop_last(items, k + 1, IF items[k][1] <= cur[1] THEN items[k] ELSE cur)

\* min(items, key=itemgetter(0)): the first item with the smallest key
RECURSIVE min_loop(_, _, _)
min_loop(items, k, cur) ==
  IF k > Len(items) THEN cur
  ELSE min_loop(items, k + 1, IF items[k][1] < cur[1] THEN items[k] ELSE cur)

\* best_cut, best_solution = min([(maxcut_obj(x,G),x) for x in counts.keys()], ...)
\* and the cut printed, -best_cut; min of an empty list raises ValueError
best_of(cs, g) ==
  LET items == [i \in 1..Len(cs) |-> <<maxcut_obj(cs[i][1], g), cs[i][1]>>]
  IN IF items = <<>>
     THEN [err |-> "ValueError", best_cut |-> 0, best_solution |-> <<>>, cut |-> 0]
     ELSE LET m == min_loop(items, 2, items[1])
          IN [err |-> "none", best_cut |-> m[1], best_solution |-> m[2],
              cut |-> 0 - m[1]]

\* ------------------------------------------------------------------ state

NoCall == [fn |-> "none"]
NoEnergy == [err |-> "none", num |-> 0, den |-> 0]
NoBest == [err |-> "none", best_cut |-> 0, best_solution |-> <<>>, cut |-> 0]
\* no evaluation of f is remembered
NoMemo == [at |-> 0]

\* the driver's variables before the driver has started
DriverIdle ==
  /\ p = 0
  /\ state = "INIT"
  /\ pc = "idle"
  /\ theta = <<>>
  /\ nfev = 0
  /\ status = "none"
  /\ qc = <<>>
  /\ counts = <<>>
  /\ ncounts = <<>>
  /\ energy = NoEnergy
  /\ runs = 0
  /\ best = NoBest
  /\ memo = NoMemo

driverVars == <<p, state, pc, theta, nfev, status, qc, counts, ncounts,
                energy, runs, best, memo>>

\* ------------------------------------------------------------------ the functions, called on their own

\* G is built (cell 10); every function is then called with arguments of its
\* domain, and call records the arguments and the result
FnInit ==
  /\ G \in AllGraphs
  /\ call = NoCall
  /\ DriverIdle

\* maxcut_obj(x, G)
CallMaxcutObj ==
  /\ call = NoCall
  /\ \E x \in Bitstrings(number_of_nodes(G)) :
       /\ call' = [fn |-> "maxcut_obj", x |-> x, ret |-> maxcut_obj(x, G)]
       /\ UNCHANGED <<G, driverVars>>

\* compute_maxcut_energy(counts, G)
CallEnergy ==
  /\ call = NoCall
  /\ \E d \in DistsFor(G) :
       /\ call' = [fn |-> "compute_maxcut_energy", counts |-> d,
                   ret |-> compute_maxcut_energy(d, G)]
       /\ UNCHANGED <<G, driverVars>>

\* r = invert_counts(d): the caller's d after the call is d
CallInvert ==
  /\ call = NoCall
  /\ \E d \in DistsFor(G) :
       /\ call' = [fn |-> "invert_counts", arg |-> d,
                   counts |-> invert_loop(d, 1, <<>>).counts,
                   ret |-> invert_counts(d)]
       /\ UNCHANGED <<G, driverVars>>

\* invert_counts applied to the result of the previous invert_counts
CallInvertAgain ==
  /\ call.fn = "invert_counts"
  /\ call' = [fn |-> "invert_counts(invert_counts)", counts |-> call.arg,
              ret |-> invert_counts(call.ret)]
  /\ UNCHANGED <<G, driverVars>>

\* get_qaoa_circuit(G, beta, gamma)
CallQaoaCircuit ==
  /\ call = NoCall
  /\ \E beta \in SeqsUpTo(Angles, MaxP), gamma \in SeqsUpTo(Angles, MaxP) :
       /\ call' = [fn |-> "get_qaoa_circuit", beta |-> beta, gamma |-> gamma,
                   ret |-> get_qaoa_circuit(G, beta, gamma)]
       /\ UNCHANGED <<G, driverVars>>

\* cell 41 on a dict counts: the selection, and the energy of the same dict
CallBestOf ==
  /\ call = NoCall
  /\ \E d \in FinalDistsFor(G) :
       /\ call' = [fn |-> "best_of", counts |-> d, ret |-> best_of(d, G),
                   energy |-> compute_maxcut_energy(d, G)]
       /\ UNCHANGED <<G, driverVars>>

\* get_cost_operator_circuit(G, gamma) (cell 14)
CallCostLayer ==
  /\ call = NoCall
  /\ \E gamma \in Angles :
       /\ call' = [fn |-> "get_cost_operator_circuit", gamma |-> gamma,
                   ret |-> get_cost_operator_circuit(G, gamma)]
       /\ UNCHANGED <<G, driverVars>>

\* append_zz_term(qc, i, j, gamma) on the circuit just returned, for an edge of
\* G.edges(): qc before and after the call
CallAppendZZ ==
  /\ call.fn = "get_cost_operator_circuit"
  /\ \E k \in 1..Len(Edges(G)), gamma \in Angles :
       /\ call' = [fn |-> "append_zz_term", qc |-> call.ret,
                   q1 |-> Edges(G)[k][1], q2 |-> Edges(G)[k][2], gamma |-> gamma,
                   ret |-> append_zz_term(call.ret, Edges(G)[k][1],
                                          Edges(G)[k][2], gamma)]
       /\ UNCHANGED <<G, driverVars>>

\* get_mixer_operator_circuit(G, beta) (cell 18)
CallMixerLayer ==
  /\ call = NoCall
  /\ \E beta \in Angles :
       /\ call' = [fn |-> "get_mixer_operator_circuit", beta |-> beta,
                   ret |-> get_mixer_operator_circuit(G, beta)]
       /\ UNCHANGED <<G, driverVars>>

\* the call has returned and its result has been looked at
Return ==
  /\ call # NoCall
  /\ call' = NoCall
  /\ UNCHANGED <<G, driverVars>>

FnNext ==
  \/ CallMaxcutObj
  \/ CallEnergy
  \/ CallInvert
  \/ CallInvertAgain
  \/ CallQaoaCircuit
  \/ CallBestOf
  \/ CallCostLayer
  \/ CallAppendZZ
  \/ CallMixerLayer
  \/ Return

FnSpec == FnInit /\ [][FnNext]_vars

\* ------------------------------------------------------------------ the variational driver

\* the graphs the driver is run on: the edge and the star
DriverGraphs == {Graph(el) : el \in {<< <<0, 1>> >>, << <<0, 2>>, <<1, 2>> >>}}

Init ==
  /\ G \in DriverGraphs
  /\ call = NoCall
  /\ DriverIdle

\* cell 35: p, obj = get_black_box_objective(G, p), init_point, and the call of
\* minimize(obj, init_point, ...)
Start ==
  /\ state = "INIT"
  /\ \E pp \in Depths, n \in 1..4 :
       \E x0 \in Thetas(n) :
         /\ p' = pp
         /\ theta' = x0
  /\ state' = "OPTIMIZING"
  /\ pc' = "minimizer"
  /\ UNCHANGED <<G, call, memo, nfev, status, qc, counts, ncounts, energy, runs, best>>

\* F_Build building the circuit of the point of the evaluation before
F_Build_stale ==
  /\ state = "OPTIMIZING"
  /\ pc = "minimizer"
  /\ nfev < MaxIter
  /\ \E x \in (IF nfev = 0 THEN {theta} ELSE Thetas(Len(theta))) :
       LET beta == SliceTo(theta, p)
           gamma == SliceFrom(theta, p)
           r == get_qaoa_circuit(G, beta, gamma)
       IN /\ theta' = x
          /\ IF r.returned
             THEN /\ qc' = r.qc
                  /\ pc' = "built"
                  /\ state' = state
             ELSE /\ qc' = qc
                  /\ pc' = r.err
                  /\ state' = "ERROR"
  /\ energy' = NoEnergy
  /\ UNCHANGED <<G, call, memo, p, nfev, status, counts, ncounts, runs, best>>

\* the minimizer calls f(theta), at init_point first and at a point of its
\* choice afterwards; f splits theta and builds the circuit, or raises at the
\* assert of get_qaoa_circuit
F_Build ==
  /\ state = "OPTIMIZING"
  /\ pc = "minimizer"
  /\ nfev < MaxIter
  /\ \E x \in (IF nfev = 0 THEN {theta} ELSE Thetas(Len(theta))) :
       LET beta == SliceTo(x, p)
           gamma == SliceFrom(x, p)
           r == get_qaoa_circuit(G, beta, gamma)
       IN /\ theta' = x
          /\ IF r.returned
             THEN /\ qc' = r.qc
                  /\ pc' = "built"
                  /\ state' = state
             ELSE /\ qc' = qc
                  /\ pc' = r.err
                  /\ state' = "ERROR"
  /\ energy' = NoEnergy
  /\ UNCHANGED <<G, call, memo, p, nfev, status, counts, ncounts, runs, best>>

\* F_Execute leaving f where it can run the circuit again
F_Execute_again ==
  /\ state = "OPTIMIZING"
  /\ pc \in {"built", "executed"}
  /\ counts' \in OutcomesOf[number_of_nodes(G)]
  /\ pc' = "executed"
  /\ UNCHANGED <<G, call, memo, p, state, theta, nfev, status, qc, ncounts, energy, runs, best>>

\* backend.run(qc).result().get_counts() inside f
F_Execute ==
  /\ state = "OPTIMIZING"
  /\ pc = "built"
  /\ counts' \in OutcomesOf[number_of_nodes(G)]
  /\ pc' = "executed"
  /\ UNCHANGED <<G, call, memo, p, state, theta, nfev, status, qc, ncounts, energy, runs, best>>

\* f_returns with theta[p:] left in theta, as if f had consumed beta in place
f_returns_consumes ==
  /\ state = "OPTIMIZING"
  /\ pc = "executed"
  /\ LET r == compute_maxcut_energy(invert_counts(counts), G)
     IN IF r.err = "none"
        THEN /\ energy' = r
             /\ nfev' = nfev + 1
             /\ pc' = "minimizer"
             /\ state' = state
        ELSE /\ energy' = energy
             /\ nfev' = nfev
             /\ pc' = r.err
             /\ state' = "ERROR"
  /\ qc' = <<>>
  /\ counts' = <<>>
  /\ theta' = SliceFrom(theta, p)
  /\ UNCHANGED <<G, call, p, status, ncounts, runs, best>>

\* return compute_maxcut_energy(invert_counts(counts), G): the value goes to
\* the minimizer and the locals of f are gone
f_returns ==
  /\ state = "OPTIMIZING"
  /\ pc = "executed"
  /\ LET r == compute_maxcut_energy(invert_counts(counts), G)
     IN IF r.err = "none"
        THEN /\ energy' = r
             /\ nfev' = nfev + 1
             /\ pc' = "minimizer"
             /\ state' = state
        ELSE /\ energy' = energy
             /\ nfev' = nfev
             /\ pc' = r.err
             /\ state' = "ERROR"
  /\ qc' = <<>>
  /\ counts' = <<>>
  /\ UNCHANGED <<G, call, p, theta, status, ncounts, runs, best>>

F_Return == f_returns /\ memo' = memo

\* MinimizerReturn raising when the iteration limit is reached
MinimizerReturn_raises ==
  /\ state = "OPTIMIZING"
  /\ pc = "minimizer"
  /\ nfev >= 1
  /\ \/ /\ status' = "converged"
        /\ state' = "DONE"
        /\ pc' = "returned"
     \/ /\ nfev = MaxIter
        /\ status' = "maxiter"
        /\ state' = "ERROR"
        /\ pc' = "NotConverged"
  /\ energy' = NoEnergy
  /\ UNCHANGED <<G, call, memo, p, theta, nfev, qc, counts, ncounts, runs, best>>

\* minimize returns res_sample: converged after some evaluation, or out of
\* iterations after MaxIter of them; res_sample['x'] is the point it holds
MinimizerReturn ==
  /\ state = "OPTIMIZING"
  /\ pc = "minimizer"
  /\ nfev >= 1
  /\ \/ status' = "converged"
     \/ /\ nfev = MaxIter
        /\ status' = "maxiter"
  /\ state' = "DONE"
  /\ pc' = "returned"
  /\ energy' = NoEnergy
  /\ UNCHANGED <<G, call, memo, p, theta, nfev, qc, counts, ncounts, runs, best>>

\* cell 37: optimal_theta = res_sample['x'];
\* qc = get_qaoa_circuit(G, optimal_theta[:p], optimal_theta[p:])
FinalBuild ==
  /\ state = "DONE"
  /\ pc = "returned"
  /\ LET r == get_qaoa_circuit(G, SliceTo(theta, p), SliceFrom(theta, p))
     IN IF r.returned
        THEN /\ qc' = r.qc
             /\ pc' = "final_built"
             /\ state' = state
        ELSE /\ qc' = qc
             /\ pc' = r.err
             /\ state' = "ERROR"
  /\ UNCHANGED <<G, call, memo, p, theta, nfev, status, counts, ncounts, energy, runs, best>>

\* cell 37: backend.run(qc).result().get_counts()
FinalExecute ==
  /\ state = "DONE"
  /\ pc = "final_built"
  /\ counts' \in OutcomesOf[number_of_nodes(G)]
  /\ runs' = runs + 1
  /\ pc' = "final_executed"
  /\ UNCHANGED <<G, call, memo, p, state, theta, nfev, status, qc, ncounts, energy, best>>

\* cell 37: counts = invert_counts(...)
FinalNormalize ==
  /\ state = "DONE"
  /\ pc = "final_executed"
  /\ ncounts' = invert_counts(counts)
  /\ pc' = "normalized"
  /\ UNCHANGED <<G, call, memo, p, state, theta, nfev, status, qc, counts, energy, runs, best>>

\* cell 41: best_cut, best_solution = min(...); print(... -best_cut)
SelectBest ==
  /\ state = "DONE"
  /\ pc = "normalized"
  /\ LET r == best_of(ncounts, G)
     IN IF r.err = "none"
        THEN /\ best' = r
             /\ pc' = "reported"
             /\ state' = state
        ELSE /\ best' = best
             /\ pc' = r.err
             /\ state' = "ERROR"
  /\ UNCHANGED <<G, call, memo, p, theta, nfev, status, qc, counts, ncounts, energy, runs>>

Next ==
  \/ Start
  \/ F_Build
  \/ F_Execute
  \/ F_Return
  \/ MinimizerReturn
  \/ FinalBuild
  \/ FinalExecute
  \/ FinalNormalize
  \/ SelectBest

Spec == Init /\ [][Next]_vars

\* the driver on the graph of one edge
FairInit ==
  /\ G = Graph(<< <<0, 1>> >>)
  /\ call = NoCall
  /\ DriverIdle

\* once minimize has returned the notebook runs its remaining cells one after
\* the other, and the backend answers the call made to it; nothing is assumed
\* of how long the minimizer goes on
FairSpec ==
  /\ FairInit
  /\ [][Next]_vars
  /\ WF_vars(FinalBuild)
  /\ WF_vars(FinalExecute)
  /\ WF_vars(FinalNormalize)
  /\ WF_vars(SelectBest)

\* ------------------------------------------------------------------ the closure on a deterministic backend

\* what a backend that puts all its shots on one bitstring can return
CannedOutcomes(N) == {<< <<b, Shots>> >> : b \in Bitstrings(N)}

\* the driver up to the return of minimize; memo remembers one evaluation of
\* f (its number, theta, circuit, raw outcome and value) and counts the
\* evaluations of another theta that came after it
RtInit ==
  /\ G \in DriverGraphs
  /\ call = NoCall
  /\ DriverIdle

\* backend.run(qc).result().get_counts() inside f, on a backend that returns
\* the same dict for the same circuit: for the circuit of the remembered
\* evaluation, the dict it returned then
RtExecute ==
  /\ state = "OPTIMIZING"
  /\ pc = "built"
  /\ counts' \in (IF memo.at # 0 /\ qc = memo.qc
                  THEN {memo.counts}
                  ELSE CannedOutcomes(number_of_nodes(G)))
  /\ pc' = "executed"
  /\ UNCHANGED <<G, call, memo, p, state, theta, nfev, status, qc, ncounts, energy, runs, best>>

\* f returns; the evaluation is remembered or not when none is yet
RtReturn ==
  /\ f_returns
  /\ IF memo.at = 0
     THEN memo' \in {memo, [at |-> nfev + 1, theta |-> theta, qc |-> qc,
                            counts |-> counts, energy |-> energy', between |-> 0]}
     ELSE memo' = [memo EXCEPT
                     !.between = IF theta # memo.theta THEN @ + 1 ELSE @]

RtNext ==
  \/ Start
  \/ F_Build
  \/ RtExecute
  \/ RtReturn

RtSpec == RtInit /\ [][RtNext]_vars

\* ------------------------------------------------------------------ claims: the functions

\* a dict read as a mapping
AsMap(d) == [k \in KeySet(d) |-> Get(d, k)]
TotalCount(d) == SumOver(KeySet(d), AsMap(d))

\* the undirected edges of g, read off its adjacency
EdgeSet(g) == UNION {{{u, v} : v \in Range(g.adj[u])} : u \in Range(g.nodes)}

\* the edges of g whose endpoints differ in the bitstring x
CutEdges(x, g) == {e \in EdgeSet(g) : \E u, v \in e : x[u + 1] # x[v + 1]}

\* the orderings of the items of a dict
Reorderings(d) ==
  {[i \in 1..Len(d) |-> d[pi[i]]] : pi \in Permutations(1..Len(d))}

\* C1: maxcut_obj(x,G) is <= 0 and its negation is the number of edges of G
\* whose endpoints carry different bits in x
C1_CutValue ==
  call.fn = "maxcut_obj" =>
    /\ call.ret <= 0
    /\ 0 - call.ret = Cardinality(CutEdges(call.x, G))

C1_Witness ==
  /\ call.fn = "maxcut_obj"
  /\ call.ret = 0 - 2
  /\ Cardinality(EdgeSet(G)) = 3

\* C2: for a dict of positive total count, the numerator and the denominator of
\* compute_maxcut_energy are the sum over the keys b of count(b)*maxcut_obj(b,G)
\* and the sum over the keys of count(b)
C2_WeightedMean ==
  (call.fn = "compute_maxcut_energy" /\ TotalCount(call.counts) > 0) =>
    /\ call.ret.err = "none"
    /\ call.ret.num = SumOver(KeySet(call.counts),
                         [b \in KeySet(call.counts) |->
                            Get(call.counts, b) * maxcut_obj(b, G)])
    /\ call.ret.den = TotalCount(call.counts)

C2_Witness ==
  /\ call.fn = "compute_maxcut_energy"
  /\ Len(call.counts) = 2
  /\ call.counts[1][2] = 2
  /\ call.counts[2][2] = 1
  /\ maxcut_obj(call.counts[1][1], G) = 0 - 2
  /\ maxcut_obj(call.counts[2][1], G) = 0 - 1
  /\ call.ret.num = 0 - 5
  /\ call.ret.den = 3

\* C3: get_qaoa_circuit raises whenever len(beta) != len(gamma), and then
\* returns no circuit
C3_Mismatch ==
  (call.fn = "get_qaoa_circuit" /\ Len(call.beta) # Len(call.gamma)) =>
    /\ call.ret.err = "AssertionError"
    /\ ~call.ret.returned
    /\ call.ret.qc = <<>>

C3_Witness ==
  /\ call.fn = "get_qaoa_circuit"
  /\ Len(call.beta) = 2
  /\ Len(call.gamma) = 1
  /\ call.ret.err = "AssertionError"

\* the instructions of a circuit that are not separator markers (barriers)
RECURSIVE NoMarkers(_)
NoMarkers(c) ==
  IF c = <<>> THEN <<>>
  ELSE (IF Head(c).op = "barrier" THEN <<>> ELSE <<Head(c)>>) \o NoMarkers(Tail(c))

\* C4: with len(beta) = len(gamma) = P (P = 0 included) get_qaoa_circuit
\* returns a circuit which, separator markers apart, is: an h on each of the N
\* lines; then for k = 0..P-1 in this order 3|E| coupling instructions whose
\* rotations have angle 2*gamma[k], followed by N x-rotations of angle
\* 2*beta[k]; then a measure of each of the N lines, and nothing after
C4_Layers ==
  (call.fn = "get_qaoa_circuit" /\ Len(call.beta) = Len(call.gamma)) =>
    LET c == NoMarkers(call.ret.qc)
        N == number_of_nodes(G)
        E == Cardinality(EdgeSet(G))
        P == Len(call.beta)
        B == 3 * E + N
    IN /\ call.ret.returned
       /\ call.ret.err = "none"
       /\ Len(c) = N + P * B + N
       /\ \A i \in 1..N : c[i].op = "h" /\ c[i].qubits = <<i - 1>>
       /\ \A k \in 0..(P - 1) :
            LET o == N + k * B
            IN /\ \A i \in 1..(3 * E) :
                    /\ c[o + i].op \in {"cx", "rz"}
                    /\ c[o + i].op = "rz" => c[o + i].params = <<2 * call.gamma[k + 1]>>
               /\ Cardinality({i \in 1..(3 * E) : c[o + i].op = "rz"}) = E
               /\ \A i \in 1..N :
                    /\ c[o + 3 * E + i].op = "rx"
                    /\ c[o + 3 * E + i].params = <<2 * call.beta[k + 1]>>
       /\ \A i \in 1..N :
            /\ c[N + P * B + i].op = "measure"
            /\ c[N + P * B + i].qubits = <<i - 1>>
       /\ call.ret.qc # <<>>
       /\ call.ret.qc[Len(call.ret.qc)].op = "measure"

C4_Witness ==
  /\ call.fn = "get_qaoa_circuit"
  /\ call.beta = <<1, 2>>
  /\ call.gamma = <<2, 1>>
  /\ call.ret.returned
  /\ Cardinality(EdgeSet(G)) = 2
  /\ Len(call.ret.qc) = 3 + 2 * (4 * 2 + 3) + 1 + 3

\* C5: compute_maxcut_energy raises whenever the total count of the dict is
\* zero (no key, or every count zero)
C5_EmptyDistribution ==
  (call.fn = "compute_maxcut_energy" /\ TotalCount(call.counts) = 0) =>
    call.ret.err # "none"

C5_Witness ==
  /\ call.fn = "compute_maxcut_energy"
  /\ Len(call.counts) = 2
  /\ TotalCount(call.counts) = 0
  /\ call.ret.err = "ZeroDivisionError"

\* C6: invert_counts(invert_counts(d)) has the keys of d, each with the count
\* it has in d
C6_Involution ==
  call.fn = "invert_counts(invert_counts)" =>
    /\ KeySet(call.ret) = KeySet(call.counts)
    /\ \A b \in KeySet(call.counts) : Get(call.ret, b) = Get(call.counts, b)

C6_Witness ==
  /\ call.fn = "invert_counts(invert_counts)"
  /\ Len(call.counts) = 2
  /\ \A i \in 1..2 : Reverse(call.counts[i][1]) # call.counts[i][1]
  /\ call.counts[2][1] = Reverse(call.counts[1][1])
  /\ call.counts[1][2] # call.counts[2][2]

\* C7: invert_counts(d) has, for every key b of d, the key b' with
\* b'[i] = b[N-1-i] carrying the count of b, and no other key; the number of
\* keys and the total count are those of d, and d is what it was
C7_Reversal ==
  call.fn = "invert_counts" =>
    LET d == call.arg
        r == call.ret
        N == number_of_nodes(G)
        Rev(b) == [i \in 1..N |-> b[N + 1 - i]]
    IN /\ \A b \in KeySet(d) : Rev(b) \in KeySet(r) /\ Get(r, Rev(b)) = Get(d, b)
       /\ KeySet(r) = {Rev(b) : b \in KeySet(d)}
       /\ Len(r) = Len(d)
       /\ Injective(Keys(r))
       /\ TotalCount(r) = TotalCount(d)
       /\ call.counts = call.arg

C7_Witness ==
  /\ call.fn = "invert_counts"
  /\ Len(call.arg) = 2
  /\ call.arg[1][1] = <<"0", "1", "1">>
  /\ call.arg[2][1] = <<"0", "0", "1">>
  /\ call.arg[1][2] = 2
  /\ call.arg[2][2] = 1
  /\ call.ret = << << <<"1", "1", "0">>, 2 >>, << <<"1", "0", "0">>, 1 >> >>

\* C9: compute_maxcut_energy returns the same numerator and denominator (or
\* the same error) for every ordering of the items of the dict
C9_OrderIndependent ==
  call.fn = "compute_maxcut_energy" =>
    \A d2 \in Reorderings(call.counts) : compute_maxcut_energy(d2, G) = call.ret

C9_Witness ==
  /\ call.fn = "compute_maxcut_energy"
  /\ Len(call.counts) = 2
  /\ call.counts[1][2] = 1
  /\ call.counts[2][2] = 2
  /\ maxcut_obj(call.counts[1][1], G) # maxcut_obj(call.counts[2][1], G)
  /\ Cardinality(Reorderings(call.counts)) = 2

\* ------------------------------------------------------------------ claims: the driver

\* the place of the key b in the iteration order of the dict d
IndexOf(d, b) == CHOOSE i \in 1..Len(d) : d[i][1] = b

\* C8: when the solution is reported the final normalized dict is not empty,
\* the reported solution is one of its keys, no key has a smaller maxcut_obj,
\* no key before it in iteration order has the same maxcut_obj, and the cut
\* reported is -maxcut_obj of the solution, the number of edges it cuts
C8_BestSolution ==
  pc = "reported" =>
    /\ ncounts # <<>>
    /\ best.best_solution \in KeySet(ncounts)
    /\ best.best_cut = maxcut_obj(best.best_solution, G)
    /\ \A b \in KeySet(ncounts) : maxcut_obj(b, G) >= best.best_cut
    /\ \A b \in KeySet(ncounts) :
         maxcut_obj(b, G) = best.best_cut =>
           IndexOf(ncounts, best.best_solution) <= IndexOf(ncounts, b)
    /\ best.cut = 0 - best.best_cut
    /\ best.cut = Cardinality(CutEdges(best.best_solution, G))

C8_Witness ==
  /\ pc = "reported"
  /\ number_of_nodes(G) = 3
  /\ Len(ncounts) = 2
  /\ maxcut_obj(ncounts[1][1], G) = 0 - 2
  /\ maxcut_obj(ncounts[2][1], G) = 0 - 2
  /\ ncounts[1][2] = 1
  /\ ncounts[2][2] = 2
  /\ best.best_solution = ncounts[1][1]
  /\ best.cut = 2

\* C10: the driver's state goes INIT, OPTIMIZING, DONE; once minimize has
\* returned, with either status, the state is DONE and never ERROR, theta stays
\* the returned one, the circuit of the re-run is the one built from it, and
\* the driver gets to report a solution after exactly one execution
C10_ReachesDone ==
  /\ [][state' # state =>
          <<state, state'>> \in {<<"INIT", "OPTIMIZING">>, <<"OPTIMIZING", "DONE">>,
                                 <<"OPTIMIZING", "ERROR">>}]_vars
  /\ [](status # "none" => state = "DONE")
  /\ [][state = "DONE" => theta' = theta]_vars
  /\ [](pc \in {"final_built", "final_executed", "normalized", "reported"} =>
          /\ qc = get_qaoa_circuit(G, SliceTo(theta, p), SliceFrom(theta, p)).qc
          /\ runs = (IF pc = "final_built" THEN 0 ELSE 1))
  /\ [](pc \in {"normalized", "reported"} => ncounts = invert_counts(counts))
  /\ (status = "converged") ~> (pc = "reported" /\ runs = 1 /\ best.err = "none")
  /\ (status = "maxiter") ~> (pc = "reported" /\ runs = 1 /\ best.err = "none")

C10_Witness ==
  /\ state = "DONE"
  /\ status = "maxiter"
  /\ nfev = MaxIter
  /\ pc = "reported"
  /\ runs = 1
  /\ best.best_solution \in KeySet(ncounts)

\* ------------------------------------------------------------------ claims: the objective closure

\* item i of a bitstring read from its other end
Mirror(b) == [i \in 1..Len(b) |-> b[Len(b) + 1 - i]]

\* the sum, over the items of the raw dict d, of count times the number of
\* edges of g cut by the mirrored key
MirroredCutSum(d, g) ==
  SumOver(1..Len(d),
          [i \in 1..Len(d) |-> d[i][2] * Cardinality(CutEdges(Mirror(d[i][1]), g))])

\* the sum of the counts of the items of d
ItemCountSum(d) == SumOver(1..Len(d), [i \in 1..Len(d) |-> d[i][2]])

\* C11: when theta has length 2p, f(theta) takes beta = theta[0..p-1] and
\* gamma = theta[p..2p-1], so the length check passes; the circuit it builds
\* is the one of exactly these two vectors; the backend is run on that circuit
\* once, between the build and the return; and the value returned is the
\* energy of the mirrored (normalized) outcome of that run
C11_Closure ==
  /\ [][(state = "OPTIMIZING" /\ pc = "minimizer"
          /\ pc' \notin {"minimizer", "returned"} /\ Len(theta') = 2 * p) =>
          /\ state' = "OPTIMIZING"
          /\ pc' = "built"
          /\ qc' = get_qaoa_circuit(G, [i \in 1..p |-> theta'[i]],
                                    [i \in 1..p |-> theta'[p + i]]).qc]_vars
  /\ [][(state = "OPTIMIZING" /\ counts' # counts /\ counts' # <<>>) =>
          /\ pc = "built"
          /\ pc' = "executed"
          /\ qc' = qc
          /\ theta' = theta]_vars
  /\ [][(state = "OPTIMIZING" /\ pc = "built") => pc' \in {"built", "executed"}]_vars
  /\ [][(state = "OPTIMIZING" /\ pc = "executed" /\ pc' # pc) =>
          /\ pc' = "minimizer"
          /\ nfev' = nfev + 1
          /\ energy'.err = "none"
          /\ energy'.den = ItemCountSum(counts)
          /\ 0 - energy'.num = MirroredCutSum(counts, G)]_vars

C11_Witness ==
  /\ state = "OPTIMIZING"
  /\ pc = "minimizer"
  /\ p = 2
  /\ theta = <<1, 2, 2, 1>>
  /\ nfev = 2
  /\ Cardinality(EdgeSet(G)) = 2
  /\ energy.den = Shots
  /\ energy.num = 0 - 4

\* ------------------------------------------------------------------ claims: the graph of cell 10

\* g is the complete bipartite graph with parts {0, 1, 2} and {3, 4}
IsK32(g) ==
  /\ number_of_nodes(g) = 5
  /\ Range(g.nodes) = 0..4
  /\ EdgeSet(g) = {{u, v} : u \in 0..2, v \in 3..4}

\* the two bitstrings that put {0, 1, 2} on one side and {3, 4} on the other
K32Partitions == {<<"1", "1", "1", "0", "0">>, <<"0", "0", "0", "1", "1">>}

\* C12: on the complete bipartite graph of {0, 1, 2} and {3, 4}, maxcut_obj
\* of '11100' and of '00011' is -6, no bitstring of the 32 has a smaller
\* maxcut_obj, and compute_maxcut_energy of a dict whose whole (positive)
\* count lies on these two bitstrings is -6
C12_Bipartite ==
  IsK32(G) =>
    /\ call.fn = "maxcut_obj" =>
          /\ call.x \in K32Partitions => call.ret = 0 - 6
          /\ call.ret >= 0 - 6
    /\ (/\ call.fn = "compute_maxcut_energy"
        /\ TotalCount(call.counts) > 0
        /\ \A b \in KeySet(call.counts) :
             Get(call.counts, b) > 0 => b \in K32Partitions) =>
          /\ call.ret.err = "none"
          /\ call.ret.num = (0 - 6) * call.ret.den

C12_Witness ==
  /\ IsK32(G)
  /\ call.fn = "compute_maxcut_energy"
  /\ Keys(call.counts) = << <<"1", "1", "1", "0", "0">>, <<"0", "0", "0", "1", "1">> >>
  /\ call.counts[1][2] = 1
  /\ call.counts[2][2] = 2
  /\ call.ret.num = 0 - 18
  /\ call.ret.den = 3

\* ------------------------------------------------------------------ claims: the layers

\* C13: get_cost_operator_circuit(G, gamma) returns, separator markers apart,
\* 3|E| instructions: for the k-th edge (i, j) of G.edges(), next to one
\* another, cx(i, j), rz(2*gamma) on j, cx(i, j), with the gamma of the call;
\* the edges met are the edges of G, each once; and append_zz_term leaves the
\* instructions the circuit already had as they were, adding three
C13_CostLayer ==
  /\ call.fn = "get_cost_operator_circuit" =>
        LET c == NoMarkers(call.ret)
            es == Edges(G)
            E == Cardinality(EdgeSet(G))
        IN /\ Len(c) = 3 * E
           /\ Len(es) = E
           /\ {{es[k][1], es[k][2]} : k \in 1..E} = EdgeSet(G)
           /\ \A k \in 1..E :
                LET i == es[k][1]
                    j == es[k][2]
                IN /\ c[3 * k - 2] = Instr("cx", <<i, j>>, <<>>)
                   /\ c[3 * k - 1] = Instr("rz", <<j>>, <<2 * call.gamma>>)
                   /\ c[3 * k] = Instr("cx", <<i, j>>, <<>>)
           /\ Len(call.ret) = 4 * E
           /\ \A n \in 1..(4 * E) : (call.ret[n].op = "barrier") = (n % 4 = 0)
  /\ call.fn = "append_zz_term" =>
        /\ Len(call.ret) = Len(call.qc) + 3
        /\ SubSeq(call.ret, 1, Len(call.qc)) = call.qc
        /\ SubSeq(call.ret, Len(call.qc) + 1, Len(call.ret)) =
             << Instr("cx", <<call.q1, call.q2>>, <<>>),
                Instr("rz", <<call.q2>>, <<2 * call.gamma>>),
                Instr("cx", <<call.q1, call.q2>>, <<>>) >>

\* the cost layer of the graph of cell 10 has been built and a term appended
\* to it with another angle
C13_Witness ==
  /\ IsK32(G)
  /\ call.fn = "append_zz_term"
  /\ Len(NoMarkers(call.qc)) = 18
  /\ call.qc[2].params = <<2>>
  /\ call.gamma = 2
  /\ call.q1 = 4
  /\ call.q2 = 2
  /\ Len(call.ret) = 27

\* C14: get_mixer_operator_circuit(G, beta) returns exactly N instructions,
\* each an rx of angle 2*beta on one line, every line 0..N-1 the target of
\* exactly one of them
C14_MixerLayer ==
  call.fn = "get_mixer_operator_circuit" =>
    LET c == call.ret
        N == number_of_nodes(G)
    IN /\ Len(c) = N
       /\ \A n \in 1..Len(c) :
            /\ c[n].op = "rx"
            /\ Len(c[n].qubits) = 1
            /\ c[n].params = <<2 * call.beta>>
       /\ \A q \in 0..(N - 1) :
            Cardinality({n \in 1..Len(c) : c[n].qubits = <<q>>}) = 1

C14_Witness ==
  /\ IsK32(G)
  /\ call.fn = "get_mixer_operator_circuit"
  /\ call.beta = 2
  /\ Len(call.ret) = 5
  /\ call.ret[2] = Instr("rx", <<3>>, <<4>>)

\* the number of instructions of c with operation op
CountOp(c, op) == Cardinality({n \in 1..Len(c) : c[n].op = op})

\* C15: the numbers of instructions of the circuit get_qaoa_circuit returns
\* depend on N, |E| and P = len(beta) = len(gamma) only, whatever the angles:
\* N h, 2*P*|E| cx and P*|E| rz (P*|E| coupling triples), P*N rx, a measure on
\* each of the N lines at the end, and 2N + P(4|E| + N) + 1 instructions in
\* all, separator markers included; for the graph of cell 10 and P = 1 that
\* is 5 h, then 6 triples, then 5 rx, then the 5 measures
C15_InstructionCount ==
  (call.fn = "get_qaoa_circuit" /\ call.ret.returned) =>
    LET c == call.ret.qc
        N == number_of_nodes(G)
        E == Cardinality(EdgeSet(G))
        P == Len(call.beta)
    IN /\ CountOp(c, "h") = N
       /\ CountOp(c, "cx") = 2 * P * E
       /\ CountOp(c, "rz") = P * E
       /\ CountOp(c, "rx") = P * N
       /\ CountOp(c, "measure") = N
       /\ CountOp(c, "barrier") = P * E + 1
       /\ Len(c) = 2 * N + P * (4 * E + N) + 1
       /\ {c[n].qubits : n \in (Len(c) - N + 1)..Len(c)} = {<<q>> : q \in 0..(N - 1)}
       /\ \A n \in (Len(c) - N + 1)..Len(c) : c[n].op = "measure"
       /\ (IsK32(G) /\ P = 1) =>
            LET d == NoMarkers(c)
            IN /\ Len(d) = 5 + 18 + 5 + 5
               /\ \A n \in 1..5 : d[n].op = "h"
               /\ \A k \in 1..6 :
                    /\ d[5 + 3 * k - 2].op = "cx"
                    /\ d[5 + 3 * k - 1].op = "rz"
                    /\ d[5 + 3 * k].op = "cx"
               /\ \A n \in 24..28 : d[n].op = "rx"
               /\ \A n \in 29..33 : d[n].op = "measure"

\* cell 22: one layer on the graph of cell 10, beta and gamma two different
\* angles
C15_Witness ==
  /\ IsK32(G)
  /\ call.fn = "get_qaoa_circuit"
  /\ call.beta = <<1>>
  /\ call.gamma = <<2>>
  /\ call.ret.returned
  /\ Len(call.ret.qc) = 40
  /\ CountOp(call.ret.qc, "rz") = 6

\* ------------------------------------------------------------------ claims: the pipeline

\* the raw dict d with every key read from its other end, once
Mirrored(d) == [i \in 1..Len(d) |-> <<Mirror(d[i][1]), d[i][2]>>]

\* C16: what the backend returns goes through invert_counts once before
\* anything else reads it. In f the step after the run hands the evaluator the
\* once-mirrored dict (the energy is that of the mirrored keys); in the final
\* re-run the step after the run is the normalization, the dict kept is the
\* once-mirrored one, it stays so, and the selection that follows reads it:
\* the solution reported is a mirrored key that cuts the most edges
C16_NormalizedOnce ==
  /\ [][(pc = "executed" /\ pc' # pc) =>
          /\ energy'.den = ItemCountSum(counts)
          /\ 0 - energy'.num = MirroredCutSum(counts, G)]_vars
  /\ [][(pc = "final_executed" /\ pc' # pc) =>
          /\ pc' = "normalized"
          /\ ncounts' = Mirrored(counts)
          /\ counts' = counts]_vars
  /\ [][(pc' = "reported" /\ pc # pc') =>
          /\ pc = "normalized"
          /\ ncounts = Mirrored(counts)
          /\ ncounts' = ncounts]_vars
  /\ [](pc = "reported" =>
          /\ ncounts = Mirrored(counts)
          /\ best.best_solution \in {Mirror(counts[i][1]) : i \in 1..Len(counts)}
          /\ \A i \in 1..Len(counts) :
               Cardinality(CutEdges(Mirror(counts[i][1]), G)) <= best.cut
          /\ Cardinality(CutEdges(best.best_solution, G)) = best.cut)

\* a run reported '110' for the raw outcome '011' on the star with centre 2:
\* the raw key cuts one edge, the mirrored key two
C16_Witness ==
  /\ pc = "reported"
  /\ nfev = 2
  /\ number_of_nodes(G) = 3
  /\ counts = << << <<"0", "1", "1">>, Shots >> >>
  /\ ncounts = << << <<"1", "1", "0">>, Shots >> >>
  /\ best.best_solution = <<"1", "1", "0">>
  /\ best.cut = 2
  /\ Cardinality(CutEdges(counts[1][1], G)) = 1

\* the circuit of the parameter vector x at depth pp on graph g
CircuitOf(g, pp, x) ==
  get_qaoa_circuit(g, [i \in 1..pp |-> x[i]],
                   [i \in 1..(Len(x) - pp) |-> x[pp + i]]).qc

\* C17: the evaluations come one after the other, each with a circuit of its
\* own. An evaluation starts only when none is under way and no circuit is
\* left from an earlier one, and builds its circuit from its own theta; the
\* backend is run only on a circuit just built, and the run moves on, so no
\* circuit is run twice; a circuit is dropped only after its run, and the
\* count of evaluations goes up by one exactly when an evaluation returns
C17_Sequential ==
  /\ [][(pc' \in {"built", "final_built"} /\ pc' # pc) =>
          /\ pc = (IF pc' = "built" THEN "minimizer" ELSE "returned")
          /\ qc = <<>>
          /\ counts = <<>>
          /\ qc' = CircuitOf(G, p, theta')]_vars
  /\ [][(counts' # counts /\ counts' # <<>>) =>
          /\ <<pc, pc'>> \in {<<"built", "executed">>,
                               <<"final_built", "final_executed">>}
          /\ counts = <<>>
          /\ qc # <<>>
          /\ qc' = qc]_vars
  /\ [][(qc # <<>> /\ qc' # qc) =>
          /\ pc = "executed"
          /\ pc' # "executed"
          /\ qc' = <<>>]_vars
  /\ [][nfev' # nfev =>
          /\ nfev' = nfev + 1
          /\ pc = "executed"
          /\ pc' = "minimizer"]_vars
  /\ [](pc \in {"built", "executed"} => (state = "OPTIMIZING" /\ qc # <<>>))

\* the second evaluation has built its circuit, of another theta than the
\* first, and the backend has run it
C17_Witness ==
  /\ state = "OPTIMIZING"
  /\ pc = "executed"
  /\ nfev = 1
  /\ p = 1
  /\ theta = <<2, 1>>
  /\ qc = CircuitOf(G, 1, <<2, 1>>)
  /\ Len(counts) = 2

\* C18: with a backend that returns the same dict for the same circuit, an
\* evaluation of f at the theta of a remembered evaluation builds the circuit
\* built then and returns the value returned then, however many evaluations
\* of another theta came between the two; f starts with nothing left from the
\* evaluation before
C18_ReferentiallyTransparent ==
  /\ [][(memo.at # 0 /\ pc = "minimizer" /\ pc' # pc /\ theta' = memo.theta) =>
          /\ pc' = "built"
          /\ qc' = memo.qc]_vars
  /\ [][(memo.at # 0 /\ pc = "executed" /\ pc' # pc /\ theta = memo.theta) =>
          /\ pc' = "minimizer"
          /\ energy' = memo.energy]_vars
  /\ [](pc = "minimizer" => (qc = <<>> /\ counts = <<>>))

\* the first evaluation is remembered, the second is of another theta, and the
\* third, of the first theta again, has returned the first value
C18_Witness ==
  /\ pc = "minimizer"
  /\ nfev = 3
  /\ memo.at = 1
  /\ memo.between = 1
  /\ theta = memo.theta
  /\ energy = memo.energy
  /\ energy.num = 0 - 2 * Shots

\* C19: no step of the driver changes G (its nodes, its adjacency, hence its
\* node set and edge set); while an evaluation of f is under way theta stays
\* the vector f was called with, and theta is given a new value only at
\* init_point (cell 35) and by the minimizer between two evaluations
C19_Frame ==
  /\ [][/\ G' = G
        /\ Range(G'.nodes) = Range(G.nodes)
        /\ EdgeSet(G') = EdgeSet(G)]_vars
  /\ [][(pc \in {"built", "executed"}) => theta' = theta]_vars
  /\ [][theta' # theta =>
          \/ pc = "idle" /\ state = "INIT"
          \/ pc = "minimizer" /\ state = "OPTIMIZING" /\ pc' # "returned"]_vars
  /\ [](state \in {"OPTIMIZING", "DONE"} => G \in DriverGraphs)

\* three evaluations have returned and the last was called with <<2, 1, 1, 2>>
C19_Witness ==
  /\ state = "OPTIMIZING"
  /\ pc = "minimizer"
  /\ nfev = 3
  /\ p = 2
  /\ theta = <<2, 1, 1, 2>>
  /\ energy.den = Shots
  /\ Cardinality(EdgeSet(G)) = 2

\* ------------------------------------------------------------------ claims: bounds of the energy

\* the keys of d with a positive count, and the maxcut values of these keys
PositiveKeys(d) == {b \in KeySet(d) : Get(d, b) > 0}
PositiveCuts(d, g) == {0 - Cardinality(CutEdges(b, g)) : b \in PositiveKeys(d)}

\* C20: for a dict of counts >= 0 with a positive total, the energy num/den
\* is at least the smallest and at most the largest maxcut value among the
\* keys of positive count, so it lies in -|E|..0; and the best_cut cell 41
\* selects from such a dict is at most the energy of the dict
C20_EnergyBounds ==
  /\ (call.fn = "compute_maxcut_energy" /\ TotalCount(call.counts) > 0) =>
        LET cuts == PositiveCuts(call.counts, G)
            num == call.ret.num
            den == call.ret.den
        IN /\ call.ret.err = "none"
           /\ den > 0
           /\ \A i \in 1..Len(call.counts) : call.counts[i][2] >= 0
           /\ \E lo \in cuts : (\A c \in cuts : lo <= c) /\ lo * den <= num
           /\ \E hi \in cuts : (\A c \in cuts : c <= hi) /\ num <= hi * den
           /\ (0 - Cardinality(EdgeSet(G))) * den <= num
           /\ num <= 0
  /\ (call.fn = "best_of" /\ TotalCount(call.counts) > 0) =>
        /\ call.ret.err = "none"
        /\ call.energy.err = "none"
        /\ call.ret.best_cut =
             0 - Cardinality(CutEdges(call.ret.best_solution, G))
        /\ call.ret.best_cut * call.energy.den <= call.energy.num

\* a run gave two outcomes of different cuts: the best cuts 2 edges and the
\* energy lies strictly between the two cut values
C20_Witness ==
  /\ call.fn = "best_of"
  /\ call.counts \in OutcomesOf[3]
  /\ Len(call.counts) = 2
  /\ call.counts[1][2] = 2
  /\ call.ret.best_cut = 0 - 2
  /\ call.energy.den = Shots
  /\ call.energy.num = 0 - 4

\* ------------------------------------------------------------------ claims: a theta of the wrong length

\* C21: when f is called with a non-empty theta whose length is not 2p,
\* theta[:p] and theta[p:] differ in length and the call ends at the assert of
\* get_qaoa_circuit: no circuit, no run of the backend, no value, no
\* evaluation counted; and with such a theta there never is a circuit, an
\* outcome, a value or a return of minimize
C21_WrongLength ==
  /\ [][(state = "OPTIMIZING" /\ pc = "minimizer" /\ pc' # pc
          /\ theta' # <<>> /\ Len(theta') # 2 * p) =>
          /\ Len(SliceTo(theta', p)) # Len(SliceFrom(theta', p))
          /\ state' = "ERROR"
          /\ pc' = "AssertionError"
          /\ qc' = <<>>
          /\ counts' = <<>>
          /\ energy' = NoEnergy
          /\ nfev' = nfev]_vars
  /\ []((theta # <<>> /\ Len(theta) # 2 * p) =>
          /\ state \in {"OPTIMIZING", "ERROR"}
          /\ pc \in {"minimizer", "AssertionError"}
          /\ qc = <<>>
          /\ counts = <<>>
          /\ energy = NoEnergy
          /\ nfev = 0
          /\ runs = 0)

\* f was called at depth 2 with a theta of three angles and has raised
C21_Witness ==
  /\ state = "ERROR"
  /\ pc = "AssertionError"
  /\ p = 2
  /\ theta = <<1, 2, 1>>
  /\ qc = <<>>
  /\ counts = <<>>
  /\ nfev = 0

====
